---- MODULE Spec2Model ----
(***************************************************************************)
(* Task orchestration engine of the file_processor application: the        *)
(* TaskLog record store, the TaskProgress history, the TaskEventLog audit  *)
(* trail and the TaskManagerService operations that mutate them, the admin *)
(* retry action, the request surface (TaskViewSet), the broker and the     *)
(* workers running FileProcessingTask.                                     *)
(***************************************************************************)
EXTENDS Integers, Sequences, FiniteSets, TLC

VARIABLES TaskLog, TaskProgress, TaskEventLog, now, last, broker, wpc, wloc, pred,
          deleted, run, response, bulk, factory

vars == <<TaskLog, TaskProgress, TaskEventLog, now, last, broker, wpc, wloc, pred,
          deleted, run, response, bulk, factory>>

(***************************************************************************)
(* Bounds of the model.                                                    *)
(***************************************************************************)
MaxTasks == 2
MaxLog == 4
NumWorkers == 2
MaxCount == 4
MaxJobs == 1
MaxDeliveries == 2
MaxClock == 3
MaxFiles == 3
MaxBatch == 50
MaxWrites == 3

(***************************************************************************)
(* Program constants and value domains.                                    *)
(***************************************************************************)
DefaultMaxRetries == 3
TaskMaxRetries == 3
NULL == 0

Ids == 1..MaxTasks
NoId == 0
Workers == 1..NumWorkers

Status == {"pending", "processing", "completed", "failed", "cancelled", "retry"}

none == "<None>"
NoMeta == -2
EmptyResult == "{}"

ProgressInputs == {-1, 0, 1, 100, 101}
Messages == {"boom"}
ErrorCodes == {none, "CELERY_ERROR"}
Results == {"r1"}
TaskTypeChoices == {"image"}
TaskTypes == TaskTypeChoices \cup {"archive"}
MaxRetriesInputs == {0, DefaultMaxRetries, DefaultMaxRetries + 1}

(***************************************************************************)
(* Rows of the three tables.                                               *)
(***************************************************************************)
NewTaskLog(task_type) ==
    [task_type |-> task_type, status |-> "pending", progress |-> 0, result |-> EmptyResult,
     error_message |-> "", error_code |-> "",
     retry_count |-> 0, max_retries |-> DefaultMaxRetries,
     started_at |-> NULL, completed_at |-> NULL, cancelled_at |-> NULL]

Event(type, meta) == [event_type |-> type, metadata |-> meta]

Call(op, id, p, retry, message, code, ret, err) ==
    [op |-> op, id |-> id, progress |-> p, retry |-> retry,
     error_message |-> message, error_code |-> code, ret |-> ret, err |-> err]

NoCall == Call("none", NoId, NoMeta, FALSE, "", none, FALSE, "none")

RECURSIVE SumLen(_, _)
SumLen(f, S) ==
    IF S = {} THEN 0
    ELSE LET i == CHOOSE x \in S : TRUE IN Len(f[i]) + SumLen(f, S \ {i})

TotalLogged == SumLen(TaskEventLog, Ids)

Exists(id) == id \in DOMAIN TaskLog

(***************************************************************************)
(* TaskLog predicates.                                                     *)
(***************************************************************************)
is_cancellable_NoRetry(status) == status \in {"pending", "processing"}

is_cancellable_AnyOpen(status) == status \notin {"completed", "cancelled"}

is_cancellable(status) == status \in {"pending", "processing", "retry"}

is_retryable_Inclusive(status, retry_count, max_retries) ==
    /\ status \in {"failed", "retry"}
    /\ retry_count <= max_retries

is_retryable(status, retry_count, max_retries) ==
    /\ status \in {"failed", "retry"}
    /\ retry_count < max_retries

(***************************************************************************)
(* Conditions of TaskManagerService.                                       *)
(***************************************************************************)
ValidProgress_Exclusive(progress) == 0 <= progress /\ progress < 100

ValidProgress_UpperOnly(progress) == progress <= 100

ValidProgress(progress) == 0 <= progress /\ progress <= 100

IsFirstStart_AnyStatus(status, progress) == progress > 0

IsFirstStart_FromZero(status, progress) == status = "pending" /\ progress >= 0

IsFirstStart(status, progress) == status = "pending" /\ progress > 0

ShouldRetry_Inclusive(retry, retry_count, max_retries) == retry /\ retry_count <= max_retries

ShouldRetry_BelowLast(retry, retry_count, max_retries) == retry /\ retry_count < max_retries - 1

ShouldRetry(retry, retry_count, max_retries) == retry /\ retry_count < max_retries

ErrorCodeOrUnknown(error_code) ==
    IF error_code \in {none, ""} THEN "UNKNOWN" ELSE error_code

(***************************************************************************)
(* Initial state: empty tables.                                            *)
(***************************************************************************)
IdlePred ==
    [pc |-> "idle", status |-> "pending", retry_count |-> 0, max_retries |-> 0,
     cancellable |-> FALSE, retryable |-> FALSE]

(***************************************************************************)
(* The broker: the deliveries waiting for a worker, the number of messages *)
(* sent so far and the ids named in revoke requests.  apply_async gives    *)
(* every message an id of its own; a retry keeps the id of its message.    *)
(***************************************************************************)
EmptyBroker == [sent |-> 0, queue |-> {}, revoked |-> {}]

MessageId(n) == MaxTasks + n

Delivery(msg, id, task_type, retries) ==
    [msg |-> msg, id |-> id, task_type |-> task_type, retries |-> retries]

delay(b, id, task_type) ==
    [b EXCEPT !.sent = @ + 1,
              !.queue = @ \cup {Delivery(MessageId(b.sent + 1), id, task_type, 0)}]

revoke(b, task_id) == [b EXCEPT !.revoked = @ \cup {task_id}]

RECURSIVE DelayAll(_, _, _)
DelayAll(b, S, types) ==
    IF S = {} THEN b
    ELSE LET i == CHOOSE x \in S : \A y \in S : y <= x
         IN  DelayAll(delay(b, i, types[i]), S \ {i}, types)

IdleRun ==
    [pc |-> "idle", msg |-> NoId, id |-> NoId, task_type |-> "", retries |-> 0,
     result |-> EmptyResult]

Response(endpoint, id, code, body) ==
    [endpoint |-> endpoint, id |-> id, code |-> code, body |-> body]

NoResponse == Response("none", NoId, NULL, "")

IdleBulk ==
    [pc |-> "idle", id |-> NoId, file_paths |-> <<>>, idx |-> 0, processed |-> 0,
     results |-> <<>>, final_result |-> EmptyResult]

IdleLocal ==
    [id |-> NoId, progress |-> 0, task |-> NewTaskLog("image"), op |-> "", retry |-> FALSE]

(***************************************************************************)
(* ProcessorFactory and ProcessorRegistry.  _processors is a dict: a        *)
(* sequence of entries in the insertion order of their keys, an assignment  *)
(* to a key already present replacing the value in place.  The classes are  *)
(* the three built-in ones and one class supplied by a caller of register.  *)
(* process of the built-in processors catches what it raises and returns a  *)
(* result with success False; a processor registered later may raise.       *)
(***************************************************************************)
None == "None"

ProcessorClasses == {"ImageProcessor", "DocumentProcessor", "VideoProcessor", "CustomProcessor"}

SUPPORTED_FORMATS(processor_class) ==
    CASE processor_class = "ImageProcessor" -> {".jpg", ".jpeg", ".png", ".gif", ".webp", ".bmp"}
      [] processor_class = "DocumentProcessor" -> {".txt", ".json", ".csv", ".pdf"}
      [] processor_class = "VideoProcessor" -> {".mp4", ".avi", ".mov", ".mkv", ".webm"}
      [] OTHER -> {".pdf", ".zip"}

Registered == <<"image", "document", "video">>

BuiltIn(file_type) ==
    CASE file_type = "image" -> "ImageProcessor"
      [] file_type = "document" -> "DocumentProcessor"
      [] file_type = "video" -> "VideoProcessor"

lower(file_type) ==
    CASE file_type \in {"IMAGE", "Image"} -> "image"
      [] file_type \in {"Archive", "ARCHIVE"} -> "archive"
      [] file_type = ".PDF" -> ".pdf"
      [] file_type = ".Png" -> ".png"
      [] OTHER -> file_type

suffix(file_path) ==
    CASE file_path = "a.pdf" -> ".pdf"
      [] file_path = "a.PDF" -> ".PDF"
      [] file_path = "b.Png" -> ".Png"
      [] file_path = "c.mp4" -> ".mp4"
      [] file_path = "d.zip" -> ".zip"
      [] OTHER -> ""

NoLookup == [op |-> "", arg |-> "", ret |-> None]

EmptyFactory == [processors |-> <<>>, initialized |-> FALSE, call |-> NoLookup]

KeyIndex(processors, key) ==
    IF \E i \in 1..Len(processors) : processors[i].key = key
    THEN CHOOSE i \in 1..Len(processors) : processors[i].key = key
    ELSE 0

get(processors, key) ==
    IF KeyIndex(processors, key) = 0 THEN None
    ELSE processors[KeyIndex(processors, key)].cls

register_Verbatim(f, file_type, processor_class) ==
    LET key == file_type
        i == KeyIndex(f.processors, key)
    IN  [f EXCEPT !.processors =
            IF i = 0 THEN Append(@, [key |-> key, cls |-> processor_class])
            ELSE [@ EXCEPT ![i].cls = processor_class]]

register(f, file_type, processor_class) ==
    LET key == lower(file_type)
        i == KeyIndex(f.processors, key)
    IN  [f EXCEPT !.processors =
            IF i = 0 THEN Append(@, [key |-> key, cls |-> processor_class])
            ELSE [@ EXCEPT ![i].cls = processor_class]]

get_processor(f, file_type) ==
    IF get(f.processors, lower(file_type)) = None THEN "ValueError"
    ELSE get(f.processors, lower(file_type))

Supports(processors, extension) ==
    {i \in 1..Len(processors) : extension \in SUPPORTED_FORMATS(processors[i].cls)}

get_processor_by_extension_Last(f, file_path) ==
    LET matching == Supports(f.processors, lower(suffix(file_path)))
    IN  IF matching = {} THEN "ValueError"
        ELSE f.processors[CHOOSE i \in matching : \A j \in matching : j <= i].cls

get_processor_by_extension(f, file_path) ==
    LET matching == Supports(f.processors, lower(suffix(file_path)))
    IN  IF matching = {} THEN "ValueError"
        ELSE f.processors[CHOOSE i \in matching : \A j \in matching : i <= j].cls

RegisterBuiltIns(f) ==
    [register(register(register(f, Registered[1], BuiltIn(Registered[1])),
                       Registered[2], BuiltIn(Registered[2])),
              Registered[3], BuiltIn(Registered[3]))
        EXCEPT !.initialized = TRUE]

initialize_Unguarded(f, import_ok) ==
    IF ~import_ok THEN f ELSE RegisterBuiltIns(f)

initialize(f, import_ok) ==
    IF f.initialized \/ ~import_ok THEN f ELSE RegisterBuiltIns(f)

\* The worker's lookup: ProcessorRegistry.initialize() with the processors'
\* imports available, then ProcessorFactory.get_processor(task_type).
HasProcessor(task_type) == get_processor(initialize(factory, TRUE), task_type) # "ValueError"

InitTables ==
    /\ TaskLog = <<>>
    /\ TaskProgress = [i \in Ids |-> <<>>]
    /\ TaskEventLog = [i \in Ids |-> <<>>]
    /\ now = 1
    /\ last = NoCall
    /\ broker = EmptyBroker
    /\ wpc = [w \in Workers |-> "idle"]
    /\ wloc = [w \in Workers |-> IdleLocal]

InitSystem ==
    /\ deleted = {}
    /\ run = [w \in Workers |-> IdleRun]
    /\ response = NoResponse
    /\ bulk = IdleBulk
    /\ factory = EmptyFactory

Init == InitTables /\ InitSystem /\ pred = IdlePred

Budget == TotalLogged < MaxLog

UnusedIds == Ids \ (DOMAIN TaskLog \cup deleted)

FreshId_First == CHOOSE i \in Ids : \A j \in Ids : i <= j

FreshId == CHOOSE i \in UnusedIds : \A j \in UnusedIds : i <= j

(***************************************************************************)
(* TaskManagerService.create_task                                          *)
(***************************************************************************)
do_create_task(file_exists, task_type) ==
    /\ IF ~file_exists
       THEN /\ last' = Call("create_task", NoId, NoMeta, FALSE, "", none, FALSE, "FileNotFoundError")
            /\ UNCHANGED <<TaskLog, TaskEventLog>>
       ELSE /\ TaskLog' = TaskLog @@ (FreshId :> NewTaskLog(task_type))
            /\ TaskEventLog' = [TaskEventLog EXCEPT ![FreshId] = Append(@, Event("created", NoMeta))]
            /\ last' = Call("create_task", FreshId, NoMeta, FALSE, "", none, TRUE, "none")
    /\ UNCHANGED <<TaskProgress, now>>

create_task(file_exists, task_type) ==
    /\ Budget
    /\ UnusedIds # {}
    /\ do_create_task(file_exists, task_type)
    /\ UNCHANGED <<broker, wpc, wloc, pred, deleted, run, response, bulk, factory>>

(***************************************************************************)
(* TaskManagerService.update_progress                                      *)
(***************************************************************************)
do_update_progress(id, progress) ==
    /\ IF ~ValidProgress(progress)
       THEN /\ last' = Call("update_progress", id, progress, FALSE, "", none, FALSE, "ValueError")
            /\ UNCHANGED <<TaskLog, TaskProgress, TaskEventLog, now>>
       ELSE IF ~Exists(id)
       THEN /\ last' = Call("update_progress", id, progress, FALSE, "", none, FALSE, "DoesNotExist")
            /\ UNCHANGED <<TaskLog, TaskProgress, TaskEventLog, now>>
       ELSE LET task == TaskLog[id]
                first == IsFirstStart(task.status, progress)
            IN  /\ TaskLog' = [TaskLog EXCEPT ![id] =
                        IF first
                        THEN [task EXCEPT !.status = "processing", !.started_at = now]
                        ELSE [task EXCEPT !.progress = progress]]
                /\ now' = IF first THEN now + 1 ELSE now
                /\ TaskEventLog' = [TaskEventLog EXCEPT ![id] =
                        (IF first THEN Append(@, Event("started", NoMeta)) ELSE @)
                            \o <<Event("progress", progress)>>]
                /\ TaskProgress' = [TaskProgress EXCEPT ![id] = Append(@, progress)]
                /\ last' = Call("update_progress", id, progress, FALSE, "", none, TRUE, "none")

update_progress(id, progress) ==
    /\ Budget
    /\ do_update_progress(id, progress)
    /\ UNCHANGED <<broker, wpc, wloc, pred, deleted, run, response, bulk, factory>>

(***************************************************************************)
(* TaskManagerService.complete_task                                        *)
(***************************************************************************)
do_complete_task_KeepProgress(id, result) ==
    /\ IF ~Exists(id)
       THEN /\ last' = Call("complete_task", id, NoMeta, FALSE, "", none, FALSE, "DoesNotExist")
            /\ UNCHANGED <<TaskLog, TaskEventLog, now>>
       ELSE /\ TaskLog' = [TaskLog EXCEPT ![id] =
                    [@ EXCEPT !.status = "completed", !.result = result, !.completed_at = now]]
            /\ now' = now + 1
            /\ TaskEventLog' = [TaskEventLog EXCEPT ![id] = Append(@, Event("completed", NoMeta))]
            /\ last' = Call("complete_task", id, NoMeta, FALSE, "", none, TRUE, "none")
    /\ UNCHANGED TaskProgress

do_complete_task(id, result) ==
    /\ IF ~Exists(id)
       THEN /\ last' = Call("complete_task", id, NoMeta, FALSE, "", none, FALSE, "DoesNotExist")
            /\ UNCHANGED <<TaskLog, TaskEventLog, now>>
       ELSE /\ TaskLog' = [TaskLog EXCEPT ![id] =
                    [@ EXCEPT !.status = "completed", !.progress = 100,
                              !.result = result, !.completed_at = now]]
            /\ now' = now + 1
            /\ TaskEventLog' = [TaskEventLog EXCEPT ![id] = Append(@, Event("completed", NoMeta))]
            /\ last' = Call("complete_task", id, NoMeta, FALSE, "", none, TRUE, "none")
    /\ UNCHANGED <<TaskProgress>>

complete_task(id, result) ==
    /\ Budget
    /\ do_complete_task(id, result)
    /\ UNCHANGED <<broker, wpc, wloc, pred, deleted, run, response, bulk, factory>>

(***************************************************************************)
(* TaskManagerService.fail_task                                            *)
(***************************************************************************)
do_fail_task(id, error_message, error_code, retry) ==
    /\ IF ~Exists(id)
       THEN /\ last' = Call("fail_task", id, NoMeta, retry, error_message, error_code, FALSE, "DoesNotExist")
            /\ UNCHANGED <<TaskLog, TaskEventLog>>
       ELSE LET task == TaskLog[id]
                again == ShouldRetry(retry, task.retry_count, task.max_retries)
                count == IF again THEN task.retry_count + 1 ELSE task.retry_count
            IN  /\ TaskLog' = [TaskLog EXCEPT ![id] =
                        [task EXCEPT !.status = IF again THEN "retry" ELSE "failed",
                                     !.retry_count = count,
                                     !.error_message = error_message,
                                     !.error_code = ErrorCodeOrUnknown(error_code)]]
                /\ TaskEventLog' = [TaskEventLog EXCEPT ![id] = Append(@, Event("failed", count))]
                /\ last' = Call("fail_task", id, NoMeta, retry, error_message, error_code, TRUE, "none")
    /\ UNCHANGED <<TaskProgress, now>>

fail_task(id, error_message, error_code, retry) ==
    /\ Budget
    /\ do_fail_task(id, error_message, error_code, retry)
    /\ UNCHANGED <<broker, wpc, wloc, pred, deleted, run, response, bulk, factory>>

(***************************************************************************)
(* TaskManagerService.cancel_task                                          *)
(***************************************************************************)
do_cancel_task(id) ==
    /\ IF ~Exists(id)
       THEN /\ last' = Call("cancel_task", id, NoMeta, FALSE, "", none, FALSE, "DoesNotExist")
            /\ UNCHANGED <<TaskLog, TaskEventLog, now>>
       ELSE IF ~is_cancellable(TaskLog[id].status)
       THEN /\ last' = Call("cancel_task", id, NoMeta, FALSE, "", none, FALSE, "ValueError")
            /\ UNCHANGED <<TaskLog, TaskEventLog, now>>
       ELSE /\ TaskLog' = [TaskLog EXCEPT ![id] =
                    [@ EXCEPT !.status = "cancelled", !.cancelled_at = now]]
            /\ now' = now + 1
            /\ TaskEventLog' = [TaskEventLog EXCEPT ![id] = Append(@, Event("cancelled", NoMeta))]
            /\ last' = Call("cancel_task", id, NoMeta, FALSE, "", none, TRUE, "none")
    /\ UNCHANGED <<TaskProgress>>

cancel_task(id) ==
    /\ Budget
    /\ do_cancel_task(id)
    /\ UNCHANGED <<broker, wpc, wloc, pred, deleted, run, response, bulk, factory>>

(***************************************************************************)
(* TaskManagerService.retry_task                                           *)
(***************************************************************************)
do_retry_task(id) ==
    /\ IF ~Exists(id)
       THEN /\ last' = Call("retry_task", id, NoMeta, FALSE, "", none, FALSE, "DoesNotExist")
            /\ UNCHANGED <<TaskLog, TaskEventLog>>
       ELSE IF ~is_retryable(TaskLog[id].status, TaskLog[id].retry_count, TaskLog[id].max_retries)
       THEN /\ last' = Call("retry_task", id, NoMeta, FALSE, "", none, FALSE, "ValueError")
            /\ UNCHANGED <<TaskLog, TaskEventLog>>
       ELSE /\ TaskLog' = [TaskLog EXCEPT ![id] =
                    [@ EXCEPT !.status = "retry", !.retry_count = @ + 1,
                              !.error_message = ""]]
            /\ TaskEventLog' = [TaskEventLog EXCEPT ![id] = Append(@, Event("retried", NoMeta))]
            /\ last' = Call("retry_task", id, NoMeta, FALSE, "", none, TRUE, "none")
    /\ UNCHANGED <<TaskProgress, now>>

retry_task(id) ==
    /\ Budget
    /\ do_retry_task(id)
    /\ UNCHANGED <<broker, wpc, wloc, pred, deleted, run, response, bulk, factory>>

(***************************************************************************)
(* TaskLogAdmin.retry_failed_tasks over a selected queryset                *)
(***************************************************************************)
AdminRetries(queryset) ==
    {i \in queryset \cap DOMAIN TaskLog :
        /\ TaskLog[i].status \in {"failed", "retry"}
        /\ is_retryable(TaskLog[i].status, TaskLog[i].retry_count, TaskLog[i].max_retries)}

retry_failed_tasks(queryset) ==
    /\ Budget
    /\ TaskLog' = [i \in DOMAIN TaskLog |->
            IF i \in AdminRetries(queryset)
            THEN [TaskLog[i] EXCEPT !.status = "retry", !.retry_count = @ + 1]
            ELSE TaskLog[i]]
    /\ broker' = DelayAll(broker, AdminRetries(queryset),
                         [i \in DOMAIN TaskLog |-> TaskLog[i].task_type])
    /\ last' = Call("retry_failed_tasks", NoId, NoMeta, FALSE, "", none, TRUE, "none")
    /\ UNCHANGED <<TaskProgress, TaskEventLog, now, wpc, wloc, pred, deleted, run, response,
                   bulk, factory>>

Next ==
    \/ \E file_exists \in BOOLEAN, task_type \in TaskTypeChoices :
            create_task(file_exists, task_type)
    \/ \E id \in Ids, progress \in ProgressInputs : update_progress(id, progress)
    \/ \E id \in Ids, result \in Results : complete_task(id, result)
    \/ \E id \in Ids, m \in Messages, c \in ErrorCodes, retry \in BOOLEAN : fail_task(id, m, c, retry)
    \/ \E id \in Ids : cancel_task(id)
    \/ \E id \in Ids : retry_task(id)
    \/ \E queryset \in SUBSET Ids : retry_failed_tasks(queryset)

Spec == Init /\ [][Next]_vars

TypeOK ==
    /\ DOMAIN TaskLog \subseteq Ids
    /\ \A i \in DOMAIN TaskLog : TaskLog[i].status \in Status
    /\ now >= 1

(***************************************************************************)
(* update_progress as the sequence of its storage accesses, run by several *)
(* workers at once: the read of the row, the append of the started event,  *)
(* the save of the named fields, the append of the history row and of the  *)
(* progress event.  No access takes a row lock.                            *)
(***************************************************************************)
SaveFields(row, task, first) ==
    IF first
    THEN [row EXCEPT !.progress = task.progress, !.status = task.status,
                     !.started_at = task.started_at]
    ELSE [row EXCEPT !.progress = task.progress]

up_get(w, id, progress) ==
    /\ wpc[w] = "idle"
    /\ Budget
    /\ IF ~ValidProgress(progress)
       THEN /\ last' = Call("update_progress", id, progress, FALSE, "", none, FALSE, "ValueError")
            /\ UNCHANGED <<wpc, wloc>>
       ELSE IF ~Exists(id)
       THEN /\ last' = Call("update_progress", id, progress, FALSE, "", none, FALSE, "DoesNotExist")
            /\ UNCHANGED <<wpc, wloc>>
       ELSE /\ wloc' = [wloc EXCEPT ![w] = [IdleLocal EXCEPT !.id = id, !.progress = progress,
                                                          !.task = TaskLog[id]]]
            /\ wpc' = [wpc EXCEPT ![w] = "branch"]
            /\ UNCHANGED last
    /\ UNCHANGED <<TaskLog, TaskProgress, TaskEventLog, now, broker, pred, deleted, run, response,
                   bulk, factory>>

up_branch(w) ==
    /\ wpc[w] = "branch"
    /\ LET loc == wloc[w] IN
       IF IsFirstStart(loc.task.status, loc.progress)
       THEN /\ wloc' = [wloc EXCEPT ![w].task =
                    [@ EXCEPT !.status = "processing", !.started_at = now]]
            /\ now' = now + 1
            /\ TaskEventLog' = [TaskEventLog EXCEPT ![loc.id] = Append(@, Event("started", NoMeta))]
            /\ wpc' = [wpc EXCEPT ![w] = "save_started"]
            /\ UNCHANGED TaskLog
       ELSE /\ wloc' = [wloc EXCEPT ![w].task = [@ EXCEPT !.progress = loc.progress]]
            /\ TaskLog' = [TaskLog EXCEPT ![loc.id] =
                    SaveFields(@, [loc.task EXCEPT !.progress = loc.progress], FALSE)]
            /\ wpc' = [wpc EXCEPT ![w] = "history"]
            /\ UNCHANGED <<now, TaskEventLog>>
    /\ UNCHANGED <<TaskProgress, last, broker, pred, deleted, run, response, bulk, factory>>

up_save_started(w) ==
    /\ wpc[w] = "save_started"
    /\ TaskLog' = [TaskLog EXCEPT ![wloc[w].id] = SaveFields(@, wloc[w].task, TRUE)]
    /\ wpc' = [wpc EXCEPT ![w] = "history"]
    /\ UNCHANGED <<TaskProgress, TaskEventLog, now, last, broker, wloc, pred, deleted, run, response,
                   bulk, factory>>

up_history(w) ==
    /\ wpc[w] = "history"
    /\ TaskProgress' = [TaskProgress EXCEPT ![wloc[w].id] = Append(@, wloc[w].progress)]
    /\ wpc' = [wpc EXCEPT ![w] = "event"]
    /\ UNCHANGED <<TaskLog, TaskEventLog, now, last, broker, wloc, pred, deleted, run, response,
                   bulk, factory>>

up_event(w) ==
    /\ wpc[w] = "event"
    /\ TaskEventLog' = [TaskEventLog EXCEPT ![wloc[w].id] =
            Append(@, Event("progress", wloc[w].progress))]
    /\ last' = Call("update_progress", wloc[w].id, wloc[w].progress, FALSE, "", none, TRUE, "none")
    /\ wpc' = [wpc EXCEPT ![w] = "idle"]
    /\ wloc' = [wloc EXCEPT ![w] = IdleLocal]
    /\ UNCHANGED <<TaskLog, TaskProgress, now, broker, pred, deleted, run, response, bulk, factory>>

NextConc ==
    \/ \E file_exists \in BOOLEAN, task_type \in TaskTypeChoices :
            create_task(file_exists, task_type)
    \/ \E w \in Workers, id \in Ids, progress \in ProgressInputs : up_get(w, id, progress)
    \/ \E w \in Workers : up_branch(w)
    \/ \E w \in Workers : up_save_started(w)
    \/ \E w \in Workers : up_history(w)
    \/ \E w \in Workers : up_event(w)

SpecConc == Init /\ [][NextConc]_vars

(***************************************************************************)
(* The two TaskLog predicates applied to every combination of status,      *)
(* retry_count and max_retries of a bounded range.                         *)
(***************************************************************************)
Counts == 0..MaxCount

InitPred ==
    /\ InitTables
    /\ InitSystem
    /\ pred \in {[pc |-> "input", status |-> s, retry_count |-> r, max_retries |-> m,
                  cancellable |-> FALSE, retryable |-> FALSE] :
                    s \in Status, r \in Counts, m \in Counts}

eval_is_cancellable ==
    /\ pred.pc = "input"
    /\ pred' = [pred EXCEPT !.cancellable = is_cancellable(pred.status), !.pc = "cancellable"]
    /\ UNCHANGED <<TaskLog, TaskProgress, TaskEventLog, now, last, broker, wpc, wloc, deleted, run, response,
                   bulk, factory>>

eval_is_retryable ==
    /\ pred.pc = "cancellable"
    /\ pred' = [pred EXCEPT
            !.retryable = is_retryable(pred.status, pred.retry_count, pred.max_retries),
            !.pc = "done"]
    /\ UNCHANGED <<TaskLog, TaskProgress, TaskEventLog, now, last, broker, wpc, wloc, deleted, run, response,
                   bulk, factory>>

NextPred == eval_is_cancellable \/ eval_is_retryable

SpecPred == InitPred /\ [][NextPred]_vars

(***************************************************************************)
(* The request surface: TaskViewSet.  Each handler runs to its response.   *)
(***************************************************************************)
view_create_task(valid, file_exists, task_type) ==
    /\ UnusedIds # {}
    /\ IF ~valid
       THEN /\ response' = Response("create_task", NoId, 400, "error")
            /\ UNCHANGED <<TaskLog, TaskProgress, TaskEventLog, now, last, broker>>
       ELSE /\ do_create_task(file_exists, task_type)
            /\ IF file_exists
               THEN /\ broker' = delay(broker, FreshId, task_type)
                    /\ response' = Response("create_task", FreshId, 201, "pending")
               ELSE /\ response' = Response("create_task", NoId, 500, "error")
                    /\ UNCHANGED broker
    /\ UNCHANGED <<wpc, wloc, pred, deleted, run, bulk, factory>>

view_cancel(id, revoke_ok) ==
    /\ IF ~Exists(id)
       THEN /\ response' = Response("cancel", id, 404, "error")
            /\ UNCHANGED <<TaskLog, TaskProgress, TaskEventLog, now, last, broker>>
       ELSE IF ~is_cancellable(TaskLog[id].status)
       THEN /\ response' = Response("cancel", id, 400, "error")
            /\ UNCHANGED <<TaskLog, TaskProgress, TaskEventLog, now, last, broker>>
       ELSE IF ~revoke_ok
       THEN /\ response' = Response("cancel", id, 500, "error")
            /\ UNCHANGED <<TaskLog, TaskProgress, TaskEventLog, now, last, broker>>
       ELSE /\ broker' = revoke(broker, id)
            /\ do_cancel_task(id)
            /\ response' = Response("cancel", id, 200, "cancelled")
    /\ UNCHANGED <<wpc, wloc, pred, deleted, run, bulk, factory>>

view_retry(id, force) ==
    /\ IF ~Exists(id)
       THEN /\ response' = Response("retry", id, 404, "error")
            /\ UNCHANGED <<TaskLog, TaskProgress, TaskEventLog, now, last, broker>>
       ELSE IF ~force /\ ~is_retryable(TaskLog[id].status, TaskLog[id].retry_count,
                                       TaskLog[id].max_retries)
       THEN /\ response' = Response("retry", id, 400, "error")
            /\ UNCHANGED <<TaskLog, TaskProgress, TaskEventLog, now, last, broker>>
       ELSE /\ do_retry_task(id)
            /\ broker' = delay(broker, id, TaskLog[id].task_type)
            /\ response' = Response("retry", id, 200, "retrying")
    /\ UNCHANGED <<wpc, wloc, pred, deleted, run, bulk, factory>>

view_destroy(id) ==
    /\ IF ~Exists(id)
       THEN /\ response' = Response("destroy", id, 404, "error")
            /\ UNCHANGED <<TaskLog, TaskProgress, TaskEventLog, deleted, bulk, factory>>
       ELSE /\ TaskLog' = [i \in DOMAIN TaskLog \ {id} |-> TaskLog[i]]
            /\ TaskProgress' = [TaskProgress EXCEPT ![id] = <<>>]
            /\ TaskEventLog' = [TaskEventLog EXCEPT ![id] = <<>>]
            /\ deleted' = deleted \cup {id}
            /\ response' = Response("destroy", id, 204, "")
    /\ UNCHANGED <<now, last, broker, wpc, wloc, pred, run, bulk, factory>>

(***************************************************************************)
(* A worker: it takes a delivery from the broker and runs one attempt of   *)
(* FileProcessingTask.run, one TaskManagerService call per step.           *)
(***************************************************************************)
Goto(w, pc) == run' = [run EXCEPT ![w].pc = pc]

ProcessOutcomes == {"success", "failure", "raised"}

FailureResult == "{success: False}"

process(outcome) ==
    CASE outcome = "success" -> "r1"
      [] outcome = "failure" -> FailureResult
      [] OTHER -> EmptyResult

pickup(w) ==
    /\ run[w].pc = "idle"
    /\ \E d \in broker.queue :
        /\ broker' = [broker EXCEPT !.queue = @ \ {d}]
        /\ run' = IF d.msg \in broker.revoked
                  THEN run
                  ELSE [run EXCEPT ![w] = [pc |-> "initializing", msg |-> d.msg,
                                           id |-> d.id, task_type |-> d.task_type,
                                           retries |-> d.retries,
                                           result |-> EmptyResult]]
    /\ UNCHANGED <<TaskLog, TaskProgress, TaskEventLog, now, last, wpc, wloc, pred,
                   deleted, response, bulk, factory>>

run_initializing_RaiseOnFalse(w) ==
    /\ run[w].pc = "initializing"
    /\ do_update_progress(run[w].id, 10)
    /\ Goto(w, IF last'.ret /\ HasProcessor(run[w].task_type)
               THEN "validating" ELSE "except")
    /\ UNCHANGED <<broker, wpc, wloc, pred, deleted, response, bulk>>
    /\ factory' = initialize(factory, TRUE)

run_initializing(w) ==
    /\ run[w].pc = "initializing"
    /\ do_update_progress(run[w].id, 10)
    /\ Goto(w, IF HasProcessor(run[w].task_type) THEN "validating" ELSE "except")
    /\ UNCHANGED <<broker, wpc, wloc, pred, deleted, response, bulk>>
    /\ factory' = initialize(factory, TRUE)

run_validating(w, valid) ==
    /\ run[w].pc = "validating"
    /\ do_update_progress(run[w].id, 25)
    /\ Goto(w, IF valid THEN "processing" ELSE "except")
    /\ UNCHANGED <<broker, wpc, wloc, pred, deleted, response, bulk, factory>>

run_processing(w, outcome) ==
    /\ run[w].pc = "processing"
    /\ do_update_progress(run[w].id, 50)
    /\ run' = [run EXCEPT ![w].pc = IF outcome = "raised" THEN "except" ELSE "finalizing",
                          ![w].result = process(outcome)]
    /\ UNCHANGED <<broker, wpc, wloc, pred, deleted, response, bulk, factory>>

run_finalizing_SkipComplete(w) ==
    /\ run[w].pc = "finalizing"
    /\ do_update_progress(run[w].id, 90)
    /\ Goto(w, "completed")
    /\ UNCHANGED <<broker, wpc, wloc, pred, deleted, response, bulk, factory>>

run_finalizing(w) ==
    /\ run[w].pc = "finalizing"
    /\ do_update_progress(run[w].id, 90)
    /\ Goto(w, "complete")
    /\ UNCHANGED <<broker, wpc, wloc, pred, deleted, response, bulk, factory>>

run_complete(w) ==
    /\ run[w].pc = "complete"
    /\ do_complete_task(run[w].id, run[w].result)
    /\ Goto(w, "completed")
    /\ UNCHANGED <<broker, wpc, wloc, pred, deleted, response, bulk, factory>>

run_completed(w) ==
    /\ run[w].pc = "completed"
    /\ do_update_progress(run[w].id, 100)
    /\ run' = [run EXCEPT ![w] = IdleRun]
    /\ UNCHANGED <<broker, wpc, wloc, pred, deleted, response, bulk, factory>>

run_except(w, error_message) ==
    /\ run[w].pc = "except"
    /\ do_fail_task(run[w].id, error_message, none, TRUE)
    /\ Goto(w, "failed")
    /\ UNCHANGED <<broker, wpc, wloc, pred, deleted, response, bulk, factory>>

run_retry_Inclusive(w) ==
    /\ run[w].pc = "failed"
    /\ run[w].retries <= TaskMaxRetries
    /\ do_update_progress(run[w].msg, -1)
    /\ broker' = [broker EXCEPT !.queue =
            @ \cup {Delivery(run[w].msg, run[w].id, run[w].task_type,
                             run[w].retries + 1)}]
    /\ run' = [run EXCEPT ![w] = IdleRun]
    /\ UNCHANGED <<wpc, wloc, pred, deleted, response, bulk, factory>>

run_retry(w) ==
    /\ run[w].pc = "failed"
    /\ run[w].retries < TaskMaxRetries
    /\ do_update_progress(run[w].msg, -1)
    /\ broker' = [broker EXCEPT !.queue =
            @ \cup {Delivery(run[w].msg, run[w].id, run[w].task_type,
                             run[w].retries + 1)}]
    /\ run' = [run EXCEPT ![w] = IdleRun]
    /\ UNCHANGED <<wpc, wloc, pred, deleted, response, bulk, factory>>

run_give_up(w) ==
    /\ run[w].pc = "failed"
    /\ ~(run[w].retries < TaskMaxRetries)
    /\ run' = [run EXCEPT ![w] = IdleRun]
    /\ UNCHANGED <<TaskLog, TaskProgress, TaskEventLog, now, last, broker, wpc, wloc,
                   pred, deleted, response, bulk, factory>>

Attempt(w) ==
    \/ pickup(w)
    \/ run_initializing(w)
    \/ \E valid \in BOOLEAN : run_validating(w, valid)
    \/ \E outcome \in ProcessOutcomes : run_processing(w, outcome)
    \/ run_finalizing(w)
    \/ run_complete(w)
    \/ run_completed(w)
    \/ \E m \in Messages : run_except(w, m)
    \/ run_retry(w)
    \/ run_give_up(w)

(***************************************************************************)
(* One worker and the jobs created through the request surface, each       *)
(* followed through all its attempts; a job can be deleted at any time.    *)
(***************************************************************************)
NextRun ==
    \/ \E valid, file_exists \in BOOLEAN, task_type \in TaskTypeChoices :
            broker.sent < MaxJobs /\ view_create_task(valid, file_exists, task_type)
    \/ \E id \in Ids : view_destroy(id)
    \/ Attempt(1)

SpecRun == Init /\ [][NextRun]_vars

(***************************************************************************)
(* The request surface, the broker and all the workers together.  A step   *)
(* is taken while the tables hold fewer than MaxLog rows, and a request    *)
(* that enqueues is taken while fewer than MaxDeliveries were sent.        *)
(***************************************************************************)
SysBudget == Budget /\ broker.sent < MaxDeliveries

NextSys ==
    \/ \E valid, file_exists \in BOOLEAN, task_type \in TaskTypeChoices :
            SysBudget /\ view_create_task(valid, file_exists, task_type)
    \/ \E id \in Ids, revoke_ok \in BOOLEAN : Budget /\ view_cancel(id, revoke_ok)
    \/ \E id \in Ids, force \in BOOLEAN : SysBudget /\ view_retry(id, force)
    \/ \E id \in Ids : Budget /\ view_destroy(id)
    \/ \E w \in Workers : Budget /\ pickup(w)
    \/ \E w \in Workers : Budget /\ run_initializing(w)
    \/ \E w \in Workers, valid \in BOOLEAN : Budget /\ run_validating(w, valid)
    \/ \E w \in Workers, outcome \in ProcessOutcomes : Budget /\ run_processing(w, outcome)
    \/ \E w \in Workers : Budget /\ run_finalizing(w)
    \/ \E w \in Workers : Budget /\ run_complete(w)
    \/ \E w \in Workers : Budget /\ run_completed(w)
    \/ \E w \in Workers, m \in Messages : Budget /\ run_except(w, m)
    \/ \E w \in Workers : Budget /\ run_retry(w)
    \/ \E w \in Workers : Budget /\ run_give_up(w)

SpecSys == Init /\ [][NextSys]_vars

(***************************************************************************)
(* TaskLogAdmin.cancel_selected_tasks and TaskLogAdmin.mark_as_completed    *)
(***************************************************************************)
AdminCancels(queryset) ==
    {i \in queryset \cap DOMAIN TaskLog : is_cancellable(TaskLog[i].status)}

cancel_selected_tasks(queryset, revoke_ok) ==
    /\ IF revoke_ok
       THEN /\ TaskLog' = [i \in DOMAIN TaskLog |->
                    IF i \in AdminCancels(queryset)
                    THEN [TaskLog[i] EXCEPT !.status = "cancelled", !.cancelled_at = now]
                    ELSE TaskLog[i]]
            /\ broker' = [broker EXCEPT !.revoked = @ \cup AdminCancels(queryset)]
            /\ now' = IF AdminCancels(queryset) # {} THEN now + 1 ELSE now
       ELSE UNCHANGED <<TaskLog, broker, now>>
    /\ last' = Call("cancel_selected_tasks", NoId, NoMeta, FALSE, "", none, TRUE, "none")
    /\ UNCHANGED <<TaskProgress, TaskEventLog, wpc, wloc, pred, deleted, run, response,
                   bulk, factory>>

mark_as_completed(queryset) ==
    /\ TaskLog' = [i \in DOMAIN TaskLog |->
            IF i \in queryset
            THEN [TaskLog[i] EXCEPT !.status = "completed", !.completed_at = now,
                                    !.progress = 100]
            ELSE TaskLog[i]]
    /\ now' = IF queryset \cap DOMAIN TaskLog # {} THEN now + 1 ELSE now
    /\ last' = Call("mark_as_completed", NoId, NoMeta, FALSE, "", none, TRUE, "none")
    /\ UNCHANGED <<TaskProgress, TaskEventLog, broker, wpc, wloc, pred, deleted, run,
                   response, bulk, factory>>

(***************************************************************************)
(* The Task Manager operations together with the actions of TaskLogAdmin.  *)
(***************************************************************************)
NextAdmin ==
    \/ \E file_exists \in BOOLEAN, task_type \in TaskTypeChoices :
            create_task(file_exists, task_type)
    \/ \E id \in Ids, progress \in ProgressInputs : update_progress(id, progress)
    \/ \E id \in Ids, result \in Results : complete_task(id, result)
    \/ \E id \in Ids, m \in Messages, c \in ErrorCodes, retry \in BOOLEAN : fail_task(id, m, c, retry)
    \/ \E id \in Ids : cancel_task(id)
    \/ \E id \in Ids : retry_task(id)
    \/ \E queryset \in SUBSET Ids : retry_failed_tasks(queryset)
    \/ \E queryset \in SUBSET Ids, revoke_ok \in BOOLEAN :
            now < MaxClock /\ cancel_selected_tasks(queryset, revoke_ok)
    \/ \E queryset \in SUBSET Ids : now < MaxClock /\ mark_as_completed(queryset)

SpecAdmin == Init /\ [][NextAdmin]_vars

(***************************************************************************)
(* The change form of TaskLogAdmin: task_type and max_retries are among    *)
(* the fields it lets the admin edit.  With it, the create and retry       *)
(* endpoints and one worker.                                               *)
(***************************************************************************)
admin_change(id, task_type, max_retries) ==
    /\ Exists(id)
    /\ TaskLog' = [TaskLog EXCEPT ![id].task_type = task_type,
                                  ![id].max_retries = max_retries]
    /\ last' = Call("admin_change", id, NoMeta, FALSE, "", none, TRUE, "none")
    /\ UNCHANGED <<TaskProgress, TaskEventLog, now, broker, wpc, wloc, pred, deleted, run,
                   response, bulk, factory>>

NextEdit ==
    \/ \E valid, file_exists \in BOOLEAN, task_type \in TaskTypeChoices :
            broker.sent < MaxJobs /\ view_create_task(valid, file_exists, task_type)
    \/ \E id \in Ids, task_type \in TaskTypes, max_retries \in MaxRetriesInputs :
            broker.sent < MaxDeliveries /\ admin_change(id, task_type, max_retries)
    \/ \E id \in Ids, force \in BOOLEAN :
            (broker.sent < MaxDeliveries /\ broker.queue = {} /\ run[1].pc = "idle")
                /\ view_retry(id, force)
    \/ Attempt(1)

SpecEdit == Init /\ [][NextEdit]_vars

(***************************************************************************)
(* BaseTask.on_failure: the scheduler reports an attempt in progress as    *)
(* failed (the worker was lost, a limit was exceeded) and calls the hook   *)
(* with the id of the message.  With it, the create endpoint and a worker. *)
(***************************************************************************)
on_failure(w, exc) ==
    /\ run[w].pc # "idle"
    /\ do_fail_task(run[w].msg, exc, "CELERY_ERROR", TRUE)
    /\ run' = [run EXCEPT ![w] = IdleRun]
    /\ UNCHANGED <<broker, wpc, wloc, pred, deleted, response, bulk, factory>>

NextHook ==
    \/ \E valid, file_exists \in BOOLEAN, task_type \in TaskTypeChoices :
            broker.sent < MaxJobs /\ view_create_task(valid, file_exists, task_type)
    \/ Attempt(1)
    \/ \E exc \in Messages : on_failure(1, exc)

SpecHook == Init /\ [][NextHook]_vars

(***************************************************************************)
(* BulkFileProcessingTask.run on a batch: the lookup of the processor, one *)
(* step per file of the loop, and the aggregate given to complete_task.    *)
(* A file path stands for what validate and process do with it.  The job   *)
(* id is the uuid bulk_create generated; no record is created for it.      *)
(* When the lookup fails the run records the failure and ends; the retry  *)
(* of the whole batch that follows starts the same run again.              *)
(***************************************************************************)
Files == {"ok.png", "corrupt.png", "note.txt", "locked.png", "crash.png"}

validate(file_path) ==
    CASE file_path = "note.txt"   -> "False"
      [] file_path = "locked.png" -> "raises"
      [] OTHER                    -> "True"

ProcessOutcome(file_path) ==
    CASE file_path = "corrupt.png" -> "failure"
      [] file_path = "crash.png"   -> "raised"
      [] OTHER                     -> "success"

ItemResult(file_path) ==
    IF validate(file_path) = "raises"
    THEN [file |-> file_path, status |-> "failed", detail |-> "exception"]
    ELSE IF validate(file_path) = "False"
    THEN [file |-> file_path, status |-> "failed", detail |-> "Validation failed"]
    ELSE IF ProcessOutcome(file_path) = "raised"
    THEN [file |-> file_path, status |-> "failed", detail |-> "exception"]
    ELSE [file |-> file_path, status |-> "success",
          detail |-> process(ProcessOutcome(file_path))]

(***************************************************************************)
(* int((idx / total_files) * 100): the quotient and the product are        *)
(* double-precision floats, each rounded to nearest-even on 53 bits, and   *)
(* int truncates.  A float is its mantissa in digits of LimbBits bits,     *)
(* most significant first (a leading digit and Limbs digits of the         *)
(* fraction), and the power of two it is divided by: the float is          *)
(* limbs * 2^-(Limbs * LimbBits) * 2^-exp.                                  *)
(***************************************************************************)
LimbBits == 13

Base == 2^LimbBits

Limbs == 4

MantissaBits == 1 + Limbs * LimbBits

RECURSIVE Normalize(_, _, _)
Normalize(r, total, e) ==
    IF r >= total THEN <<r, e>> ELSE Normalize(2 * r, total, e + 1)

PowMod(j, m) == IF j = 0 THEN 1 % m ELSE ((Base % m)^j) % m

Increment(limbs) ==
    [i \in 1..Len(limbs) |->
        IF \A j \in (i + 1)..Len(limbs) : limbs[j] = Base - 1
        THEN IF i = 1 THEN limbs[i] + 1 ELSE (limbs[i] + 1) % Base
        ELSE limbs[i]]

RoundNearestEven(limbs, guard, sticky) ==
    IF guard = 1 /\ (sticky \/ limbs[Len(limbs)] % 2 = 1)
    THEN Increment(limbs)
    ELSE limbs

FloatDiv(idx, total) ==
    LET n == Normalize(idx, total, 0)
        rest(j) == (n[1] * PowMod(j, total)) % total
        q == [i \in 1..(Limbs + 1) |->
                IF i = 1 THEN n[1] \div total ELSE (Base * rest(i - 2)) \div total]
        guard == (2 * rest(Limbs)) \div total
        sticky == (2 * rest(Limbs)) % total # 0
    IN  [limbs |-> RoundNearestEven(q, guard, sticky), exp |-> n[2]]

BitLength(n) == CHOOSE b \in 1..LimbBits : 2^(b - 1) <= n /\ n < 2^b

FloatTimes100(x) ==
    LET d == x.limbs
        t5 == d[5] * 100
        t4 == d[4] * 100 + t5 \div Base
        t3 == d[3] * 100 + t4 \div Base
        t2 == d[2] * 100 + t3 \div Base
        t1 == d[1] * 100 + t2 \div Base
        p == <<t1, t2 % Base, t3 % Base, t4 % Base, t5 % Base>>
        dropped == BitLength(t1) - 1
        kept == p[5] \div 2^dropped
        guard == (p[5] \div 2^(dropped - 1)) % 2
        sticky == p[5] % 2^(dropped - 1) # 0
        up == IF guard = 1 /\ (sticky \/ kept % 2 = 1) THEN 1 ELSE 0
        rounded == (kept + up) * 2^dropped
    IN  [limbs |-> IF rounded = Base
                   THEN Increment([p EXCEPT ![5] = Base - 1])
                   ELSE [p EXCEPT ![5] = rounded],
         exp |-> x.exp]

FloatToInt(x) == x.limbs[1] \div 2^x.exp

ItemProgress(idx, total_files) ==
    IF idx = 0 THEN 0 ELSE FloatToInt(FloatTimes100(FloatDiv(idx, total_files)))

Batches == UNION {[1..n -> Files] : n \in 0..MaxFiles}

InitBulk ==
    /\ InitTables
    /\ deleted = {}
    /\ run = [w \in Workers |-> IdleRun]
    /\ response = NoResponse
    /\ factory = EmptyFactory
    /\ pred = IdlePred
    /\ \E file_paths \in Batches :
            bulk = [IdleBulk EXCEPT !.pc = "start", !.id = 1, !.file_paths = file_paths]

bulk_start(task_type) ==
    /\ bulk.pc = "start"
    /\ IF HasProcessor(task_type)
       THEN /\ bulk' = [bulk EXCEPT !.pc = "loop", !.idx = 0, !.processed = 0,
                                    !.results = <<>>]
            /\ UNCHANGED <<TaskLog, TaskProgress, TaskEventLog, now, last>>
       ELSE /\ do_fail_task(bulk.id, "Unknown processor type", none, TRUE)
            /\ bulk' = [bulk EXCEPT !.pc = "failed"]
    /\ UNCHANGED <<broker, wpc, wloc, pred, deleted, run, response>>
    /\ factory' = initialize(factory, TRUE)

bulk_item_StopOnFailure ==
    /\ bulk.pc = "loop"
    /\ bulk.idx < Len(bulk.file_paths)
    /\ do_update_progress(bulk.id, ItemProgress(bulk.idx, Len(bulk.file_paths)))
    /\ LET entry == ItemResult(bulk.file_paths[bulk.idx + 1])
       IN  bulk' = [bulk EXCEPT
                !.results = Append(@, entry),
                !.processed = IF entry.status = "success" THEN @ + 1 ELSE @,
                !.idx = IF entry.status = "success" THEN @ + 1 ELSE Len(bulk.file_paths)]
    /\ UNCHANGED <<broker, wpc, wloc, pred, deleted, run, response, factory>>

bulk_item ==
    /\ bulk.pc = "loop"
    /\ bulk.idx < Len(bulk.file_paths)
    /\ do_update_progress(bulk.id, ItemProgress(bulk.idx, Len(bulk.file_paths)))
    /\ LET entry == ItemResult(bulk.file_paths[bulk.idx + 1])
       IN  bulk' = [bulk EXCEPT
                !.results = Append(@, entry),
                !.processed = IF entry.status = "success" THEN @ + 1 ELSE @,
                !.idx = @ + 1]
    /\ UNCHANGED <<broker, wpc, wloc, pred, deleted, run, response, factory>>

bulk_complete ==
    /\ bulk.pc = "loop"
    /\ bulk.idx = Len(bulk.file_paths)
    /\ LET final_result == [total |-> Len(bulk.file_paths),
                            processed |-> bulk.processed,
                            failed |-> Len(bulk.file_paths) - bulk.processed,
                            results |-> bulk.results]
       IN  /\ do_complete_task(bulk.id, final_result)
           /\ bulk' = [bulk EXCEPT !.pc = "returned", !.final_result = final_result]
    /\ UNCHANGED <<broker, wpc, wloc, pred, deleted, run, response, factory>>

NextBulk ==
    \/ \E task_type \in TaskTypes : bulk_start(task_type)
    \/ bulk_item
    \/ bulk_complete

SpecBulk == InitBulk /\ [][NextBulk]_vars

(***************************************************************************)
(* The bulk runner on long batches of files that all process well.         *)
(***************************************************************************)
LongBatches == {[i \in 1..n |-> "ok.png"] : n \in 0..MaxBatch}

InitBatch ==
    /\ InitTables
    /\ deleted = {}
    /\ run = [w \in Workers |-> IdleRun]
    /\ response = NoResponse
    /\ factory = EmptyFactory
    /\ pred = IdlePred
    /\ \E file_paths \in LongBatches :
            bulk = [IdleBulk EXCEPT !.pc = "start", !.id = 1, !.file_paths = file_paths]

SpecBatch == InitBatch /\ [][NextBulk]_vars

(***************************************************************************)
(* Properties.                                                             *)
(***************************************************************************)
Terminal == {"completed", "failed", "cancelled"}

ManagerOps == {"update_progress", "complete_task", "fail_task", "cancel_task", "retry_task"}

CountEvents(id, type) ==
    Cardinality({k \in 1..Len(TaskEventLog[id]) : TaskEventLog[id][k].event_type = type})

\* C1: once a record's status is completed, failed or cancelled, no
\* update_progress, complete_task, fail_task, cancel_task or retry_task call
\* changes its status to a different value.
C1_TerminalStatusIsFinal ==
    [][\A id \in DOMAIN TaskLog :
        (TaskLog[id].status \in Terminal /\ last'.op \in ManagerOps)
            => TaskLog'[id].status = TaskLog[id].status]_vars

\* C2: in every reachable state every record has retry_count <= max_retries.
C2_RetryCountWithinBudget ==
    \A id \in DOMAIN TaskLog : TaskLog[id].retry_count <= TaskLog[id].max_retries

\* C2 witness: fail_task with the retry flag has acted on a record whose
\* retry budget was already used up.
C2_Witness ==
    \E id \in DOMAIN TaskLog :
        /\ last.op = "fail_task" /\ last.id = id /\ last.retry /\ last.ret
        /\ TaskLog[id].status = "failed"
        /\ TaskLog[id].retry_count = TaskLog[id].max_retries

\* C3: fail_task on an existing record sets status=retry and adds exactly 1
\* to retry_count iff the retry flag is true and retry_count < max_retries
\* before the call; otherwise it sets status=failed and keeps retry_count.
\* Either way it records the error message and code and appends one failed
\* event that carries the retry_count after the call.
C3_FailTask ==
    [][\A id \in DOMAIN TaskLog :
        (last'.op = "fail_task" /\ last'.id = id) =>
            LET pre == TaskLog[id]
                post == TaskLog'[id]
                again == last'.retry /\ pre.retry_count < pre.max_retries
            IN  /\ last'.ret
                /\ again => (post.status = "retry" /\ post.retry_count = pre.retry_count + 1)
                /\ ~again => (post.status = "failed" /\ post.retry_count = pre.retry_count)
                /\ post.error_message = last'.error_message
                /\ post.error_code =
                      (IF last'.error_code = none THEN "UNKNOWN" ELSE last'.error_code)
                /\ TaskEventLog'[id] = Append(TaskEventLog[id], Event("failed", post.retry_count))
                /\ TaskProgress'[id] = TaskProgress[id]]_vars

\* C3 witness: fail_task with the retry flag has acted on a record whose
\* retry_count was max_retries - 1, and left it in status retry.
C3_Witness ==
    \E id \in DOMAIN TaskLog :
        /\ last.op = "fail_task" /\ last.id = id /\ last.retry /\ last.ret
        /\ TaskLog[id].status = "retry"
        /\ TaskLog[id].retry_count = TaskLog[id].max_retries

\* C4: update_progress(id, p) is rejected as a validation error iff p < 0 or
\* p > 100, and a rejected call changes neither the records, nor the progress
\* history, nor the event log.
C4_ProgressValidation ==
    [][last'.op = "update_progress" =>
        /\ (last'.err = "ValueError") <=> (last'.progress < 0 \/ last'.progress > 100)
        /\ last'.err = "ValueError" =>
              (~last'.ret /\ UNCHANGED <<TaskLog, TaskProgress, TaskEventLog, now>>)]_vars

\* C4 witness: an out-of-range update_progress on an existing, already
\* started record has been rejected.
C4_Witness ==
    /\ last.op = "update_progress" /\ last.err = "ValueError" /\ last.progress > 100
    /\ last.id \in DOMAIN TaskLog
    /\ TaskLog[last.id].status = "processing"

\* C5: update_progress with p > 0 on a pending record sets status=processing
\* and started_at; started_at is written by no other step, so it is set once
\* and only on the pending-to-processing transition.
C5_StartedAtOnce ==
    [][/\ \A id \in DOMAIN TaskLog :
            /\ (/\ last'.op = "update_progress" /\ last'.id = id
                /\ TaskLog[id].status = "pending"
                /\ last'.progress > 0 /\ last'.progress <= 100)
                    => /\ TaskLog'[id].status = "processing"
                       /\ TaskLog'[id].started_at = now
                       /\ TaskLog'[id].started_at # NULL
            /\ TaskLog'[id].started_at # TaskLog[id].started_at
                    => /\ TaskLog[id].started_at = NULL
                       /\ TaskLog[id].status = "pending"
                       /\ TaskLog'[id].status = "processing"
                       /\ last'.op = "update_progress" /\ last'.id = id
                       /\ last'.progress > 0
       /\ \A id \in DOMAIN TaskLog' \ DOMAIN TaskLog : TaskLog'[id].started_at = NULL]_vars

\* C5 witness: a later update_progress with p > 0 has acted on a record that
\* was already started.
C5_Witness ==
    \E id \in DOMAIN TaskLog :
        /\ last.op = "update_progress" /\ last.id = id /\ last.ret
        /\ last.progress > 0
        /\ TaskLog[id].started_at # NULL
        /\ TaskLog[id].progress = last.progress
        /\ Len(TaskProgress[id]) >= 2

\* C6: when update_progress calls with p > 0 for the same pending job id
\* interleave, at most one started event is appended and started_at is
\* written at most once.
C6_TransitionFiresOnce ==
    [][\A id \in DOMAIN TaskLog :
        /\ CountEvents(id, "started")' <= 1
        /\ TaskLog[id].started_at # NULL
              => TaskLog'[id].started_at = TaskLog[id].started_at]_vars

\* C7: cancel_task succeeds only from status pending, processing or retry;
\* on success it sets status=cancelled and cancelled_at and appends exactly
\* one cancelled event; from completed, failed or cancelled it reports
\* failure and changes neither the record nor the two logs.
C7_CancelTask ==
    [][\A id \in DOMAIN TaskLog :
        (last'.op = "cancel_task" /\ last'.id = id) =>
            /\ last'.ret <=> TaskLog[id].status \in {"pending", "processing", "retry"}
            /\ ~last'.ret <=> TaskLog[id].status \in {"completed", "failed", "cancelled"}
            /\ last'.ret =>
                  /\ TaskLog'[id] = [TaskLog[id] EXCEPT !.status = "cancelled",
                                                        !.cancelled_at = now]
                  /\ TaskLog'[id].cancelled_at # NULL
                  /\ TaskEventLog'[id] = Append(TaskEventLog[id], Event("cancelled", NoMeta))
                  /\ TaskProgress' = TaskProgress
            /\ ~last'.ret => UNCHANGED <<TaskLog, TaskProgress, TaskEventLog>>]_vars

\* C7 witness: cancel_task has been refused on a record in a terminal status.
C7_Witness ==
    /\ last.op = "cancel_task" /\ ~last.ret /\ last.err = "ValueError"
    /\ last.id \in DOMAIN TaskLog
    /\ TaskLog[last.id].status \in Terminal

\* C8: retry_task succeeds only when status is failed or retry and
\* retry_count < max_retries held before the call; on success it adds exactly
\* 1 to retry_count, sets status=retry and appends exactly one retried event;
\* otherwise it reports failure and changes neither the record nor the logs.
C8_RetryTask ==
    [][\A id \in DOMAIN TaskLog :
        (last'.op = "retry_task" /\ last'.id = id) =>
            LET pre == TaskLog[id]
                post == TaskLog'[id]
            IN  /\ last'.ret <=> (/\ pre.status \in {"failed", "retry"}
                                  /\ pre.retry_count < pre.max_retries)
                /\ last'.ret =>
                      /\ post.retry_count = pre.retry_count + 1
                      /\ post.status = "retry"
                      /\ TaskEventLog'[id] = Append(TaskEventLog[id], Event("retried", NoMeta))
                      /\ TaskProgress' = TaskProgress
                /\ ~last'.ret => UNCHANGED <<TaskLog, TaskProgress, TaskEventLog>>]_vars

\* C8 witness: retry_task has been refused on a failed record whose retry
\* budget is used up.
C8_Witness ==
    /\ last.op = "retry_task" /\ ~last.ret /\ last.err = "ValueError"
    /\ last.id \in DOMAIN TaskLog
    /\ TaskLog[last.id].status \in {"failed", "retry"}
    /\ TaskLog[last.id].retry_count = TaskLog[last.id].max_retries

\* C9: over all six status values and all retry_count/max_retries pairs of
\* the range, is_cancellable is true exactly for pending, processing and
\* retry, and is_retryable exactly for failed or retry with
\* retry_count < max_retries.
C9_Predicates ==
    /\ pred.pc \in {"cancellable", "done"} =>
          (pred.cancellable <=> pred.status \in {"pending", "processing", "retry"})
    /\ pred.pc = "done" =>
          (pred.retryable <=> (/\ pred.status \in {"failed", "retry"}
                               /\ pred.retry_count < pred.max_retries))

\* C9 witness: both predicates evaluated to true on a record in status retry
\* with one retry left.
C9_Witness ==
    /\ pred.pc = "done" /\ pred.status = "retry"
    /\ pred.retry_count + 1 = pred.max_retries
    /\ pred.cancellable /\ pred.retryable

\* C10: applying the same update_progress, complete_task or fail_task call a
\* second time in a row leaves status, progress, retry_count and the
\* timestamps as the first application left them.
C10_Idempotent ==
    [][\A id \in DOMAIN TaskLog :
        (/\ last.op \in {"update_progress", "complete_task", "fail_task"}
         /\ last.ret /\ last.id = id
         /\ last' = last)
            => /\ TaskLog'[id].status = TaskLog[id].status
               /\ TaskLog'[id].progress = TaskLog[id].progress
               /\ TaskLog'[id].retry_count = TaskLog[id].retry_count
               /\ TaskLog'[id].started_at = TaskLog[id].started_at
               /\ TaskLog'[id].completed_at = TaskLog[id].completed_at
               /\ TaskLog'[id].cancelled_at = TaskLog[id].cancelled_at]_vars

\* C12: completed_at and cancelled_at are each written at most once per
\* record, and only by a step that moves the record into a terminal status.
C12_TerminalTimestampsOnce ==
    [][\A id \in DOMAIN TaskLog \cap DOMAIN TaskLog' :
        /\ TaskLog'[id].completed_at # TaskLog[id].completed_at
              => /\ TaskLog[id].completed_at = NULL
                 /\ TaskLog[id].status \notin Terminal
                 /\ TaskLog'[id].status \in Terminal
        /\ TaskLog'[id].cancelled_at # TaskLog[id].cancelled_at
              => /\ TaskLog[id].cancelled_at = NULL
                 /\ TaskLog[id].status \notin Terminal
                 /\ TaskLog'[id].status \in Terminal]_vars

\* C13: the progress field of every record is in [0,100] and so is the
\* progress value of every entry of the progress history.
C13_ProgressInRange ==
    /\ \A id \in DOMAIN TaskLog : TaskLog[id].progress \in 0..100
    /\ \A id \in Ids : \A k \in 1..Len(TaskProgress[id]) : TaskProgress[id][k] \in 0..100

\* C13 witness: a negative progress report has been made for a record that
\* already has a progress history.
C13_Witness ==
    /\ last.op = "update_progress" /\ last.progress < 0
    /\ last.id \in DOMAIN TaskLog
    /\ Len(TaskProgress[last.id]) >= 1

\* C14: when the source resolves, create_task adds exactly one record, with
\* status=pending, progress=0, retry_count=0 and a job id no existing record
\* has, and appends exactly one created event; when the source does not
\* resolve it fails and adds no record and no event.
C14_CreateTask ==
    [][last'.op = "create_task" =>
        IF last'.ret
        THEN /\ last'.id \in Ids \ DOMAIN TaskLog
             /\ DOMAIN TaskLog' = DOMAIN TaskLog \cup {last'.id}
             /\ \A j \in DOMAIN TaskLog : TaskLog'[j] = TaskLog[j]
             /\ TaskLog'[last'.id].status = "pending"
             /\ TaskLog'[last'.id].progress = 0
             /\ TaskLog'[last'.id].retry_count = 0
             /\ TaskEventLog[last'.id] = <<>>
             /\ TaskEventLog' = [TaskEventLog EXCEPT ![last'.id] = <<Event("created", NoMeta)>>]
             /\ TaskProgress' = TaskProgress
        ELSE /\ last'.err = "FileNotFoundError"
             /\ UNCHANGED <<TaskLog, TaskProgress, TaskEventLog>>]_vars

\* C14 witness: create_task has succeeded while another record existed.
C14_Witness ==
    /\ last.op = "create_task" /\ last.ret
    /\ Cardinality(DOMAIN TaskLog) >= 2
    /\ TaskEventLog[last.id] = <<Event("created", NoMeta)>>

\* C15: every successful update_progress appends exactly one progress entry
\* and one progress event, preceded by exactly one started event precisely
\* when the record was pending and p > 0 (the record then becomes
\* processing); with p = 0 a pending record stays pending.
C15_UpdateProgressAudit ==
    [][\A id \in DOMAIN TaskLog :
        (last'.op = "update_progress" /\ last'.id = id /\ last'.ret) =>
            LET p == last'.progress
                first == TaskLog[id].status = "pending" /\ p > 0
            IN  /\ TaskProgress'[id] = Append(TaskProgress[id], p)
                /\ TaskEventLog'[id] =
                      TaskEventLog[id]
                          \o (IF first THEN <<Event("started", NoMeta)>> ELSE <<>>)
                          \o <<Event("progress", p)>>
                /\ first => TaskLog'[id].status = "processing"
                /\ ~first => TaskLog'[id].status = TaskLog[id].status]_vars

\* C15 witness: create_task followed by one update_progress with p > 0: the
\* record is processing with one progress entry, one started event and one
\* progress event.
C15_Witness ==
    \E id \in DOMAIN TaskLog :
        /\ last.op = "update_progress" /\ last.id = id /\ last.ret /\ last.progress > 0
        /\ TaskLog[id].status = "processing"
        /\ Len(TaskProgress[id]) = 1
        /\ TaskEventLog[id] = <<Event("created", NoMeta), Event("started", NoMeta),
                                Event("progress", last.progress)>>

\* C16: complete_task on an existing record sets status=completed,
\* progress=100 and completed_at, stores the result and appends exactly one
\* completed event; on an unknown job id it returns false and changes nothing.
C16_CompleteTask ==
    [][\A id \in Ids :
        (last'.op = "complete_task" /\ last'.id = id) =>
            IF id \in DOMAIN TaskLog
            THEN /\ last'.ret
                 /\ TaskLog'[id].status = "completed"
                 /\ TaskLog'[id].progress = 100
                 /\ TaskLog'[id].completed_at = now
                 /\ TaskLog'[id].completed_at # NULL
                 /\ TaskLog'[id].result \in Results
                 /\ TaskEventLog'[id] = Append(TaskEventLog[id], Event("completed", NoMeta))
                 /\ TaskProgress' = TaskProgress
            ELSE /\ ~last'.ret
                 /\ UNCHANGED <<TaskLog, TaskProgress, TaskEventLog>>]_vars

\* C16 witness: complete_task has acted on a started record whose progress
\* history ends below 100.
C16_Witness ==
    \E id \in DOMAIN TaskLog :
        /\ last.op = "complete_task" /\ last.id = id /\ last.ret
        /\ TaskLog[id].started_at # NULL
        /\ TaskLog[id].status = "completed"
        /\ TaskLog[id].progress = 100
        /\ Len(TaskProgress[id]) >= 1
        /\ TaskProgress[id][Len(TaskProgress[id])] < 100

\* C18: after a successful retry_task both error_message and error_code of
\* the record are empty.
C18_RetryClearsErrorFields ==
    [][\A id \in DOMAIN TaskLog :
        (last'.op = "retry_task" /\ last'.id = id /\ last'.ret) =>
            /\ TaskLog'[id].error_message = ""
            /\ TaskLog'[id].error_code = ""]_vars

\* The stages of FileProcessingTask.run that report progress, and the places
\* the attempt can be at after each of them when the report raised nothing.
ProgressStages == {"initializing", "validating", "processing", "finalizing", "completed"}

AfterStage(pc) ==
    CASE pc = "initializing" -> {"validating", "except"}
      [] pc = "validating"   -> {"processing", "except"}
      [] pc = "processing"   -> {"finalizing", "except"}
      [] pc = "finalizing"   -> {"complete"}
      [] pc = "completed"    -> {"idle"}

\* C17: when a stage of the runner calls update_progress with a job id that
\* has no record, the call returns false, no record, history row or event is
\* written, and the attempt goes on to what follows that stage in run instead
\* of entering its error path because of the false return.
C17_UnknownIdIsNonFatal ==
    [][\A w \in Workers :
        (/\ run[w].pc \in ProgressStages
         /\ run'[w] # run[w]
         /\ ~Exists(run[w].id))
            => /\ last'.op = "update_progress" /\ last'.id = run[w].id
               /\ last'.err = "DoesNotExist" /\ ~last'.ret
               /\ UNCHANGED <<TaskLog, TaskProgress, TaskEventLog, now>>
               /\ run'[w].pc \in AfterStage(run[w].pc)
               /\ (run[w].pc = "initializing" /\ HasProcessor(run[w].task_type))
                      => run'[w].pc = "validating"]_vars

\* C17 witness: the record was deleted while its delivery was queued, the
\* first update_progress of the attempt found no record, and the attempt is
\* at its validating stage.
C17_Witness ==
    \E w \in Workers :
        /\ run[w].pc = "validating"
        /\ run[w].id \in deleted
        /\ last.op = "update_progress" /\ last.id = run[w].id /\ last.progress = 10
        /\ last.err = "DoesNotExist" /\ ~last.ret
        /\ TaskProgress[run[w].id] = <<>> /\ TaskEventLog[run[w].id] = <<>>

\* The workers that are inside an attempt for job id.
InFlight(id) == {w \in Workers : run[w].pc # "idle" /\ run[w].id = id}

\* C11: at any time at most one worker is inside an execution attempt for a
\* given job id, whatever the order of create and retry requests, scheduled
\* retries and worker steps.
C11_OneAttemptInFlight ==
    \A id \in Ids : Cardinality(InFlight(id)) <= 1

\* C19: when the cancel endpoint answers a cancel of a cancellable record
\* with an error (the revoke request to the broker failed), the record is
\* nevertheless cancelled: status=cancelled, cancelled_at set, and a cancelled
\* event is the last entry of its event log.
C19_RevokeFailureStillCancels ==
    [][\A id \in DOMAIN TaskLog :
        (/\ is_cancellable(TaskLog[id].status)
         /\ response' # response
         /\ response'.endpoint = "cancel" /\ response'.id = id
         /\ response'.code = 500)
            => /\ TaskLog'[id].status = "cancelled"
               /\ TaskLog'[id].cancelled_at # NULL
               /\ Len(TaskEventLog'[id]) = Len(TaskEventLog[id]) + 1
               /\ TaskEventLog'[id][Len(TaskEventLog'[id])].event_type = "cancelled"]_vars

\* C20: whenever a request makes retry_task or cancel_task refuse because the
\* record is outside the permitted status set, the response of that request
\* is an error, not a success, and the request enqueues no delivery.
C20_RefusalIsSurfaced ==
    [][(/\ last'.op \in {"retry_task", "cancel_task"}
        /\ last'.err = "ValueError"
        /\ (response' # response \/ broker'.sent # broker.sent))
            => /\ response'.code >= 400
               /\ response'.body = "error"
               /\ broker'.sent = broker.sent]_vars

\* C21: every call of update_progress, complete_task, fail_task, cancel_task
\* or retry_task on an existing record that ends in a failure outcome (the
\* value was rejected, or the record's status did not permit the operation)
\* leaves at least one new event in that record's log.
C21_FailureWritesEvent ==
    [][\A id \in DOMAIN TaskLog :
        (/\ last'.op \in {"update_progress", "complete_task", "fail_task",
                          "cancel_task", "retry_task"}
         /\ last'.id = id
         /\ ~last'.ret)
            => /\ id \in DOMAIN TaskLog'
               /\ Len(TaskEventLog'[id]) > Len(TaskEventLog[id])]_vars

\* The event type that records a change to a status.
MatchingEvent(status) ==
    CASE status = "cancelled" -> "cancelled"
      [] status = "retry"     -> "retried"
      [] status = "completed" -> "completed"
      [] status = "failed"    -> "failed"
      [] status = "processing" -> "started"
      [] status = "pending"   -> "created"

\* C22: every status change made by an action of the admin (cancel selected,
\* retry failed, mark as completed) is one the predicates permit -- to
\* cancelled only from a cancellable status, to retry only from a retryable
\* record, and never out of a terminal status -- and appends to the record's
\* log an event of the type matching the new status.
C22_AdminUsesManager ==
    [][\A id \in DOMAIN TaskLog :
        (/\ last'.op \in {"cancel_selected_tasks", "retry_failed_tasks", "mark_as_completed"}
         /\ TaskLog'[id].status # TaskLog[id].status)
            => /\ TaskLog'[id].status = "cancelled" => is_cancellable(TaskLog[id].status)
               /\ TaskLog'[id].status = "retry" =>
                      is_retryable(TaskLog[id].status, TaskLog[id].retry_count,
                                   TaskLog[id].max_retries)
               /\ TaskLog[id].status \notin Terminal \/ TaskLog'[id].status = "retry"
               /\ Len(TaskEventLog'[id]) = Len(TaskEventLog[id]) + 1
               /\ TaskEventLog'[id][Len(TaskEventLog'[id])].event_type =
                      MatchingEvent(TaskLog'[id].status)]_vars

\* The Task Manager call that run makes at a stage: its name and its progress.
StageCall(pc) ==
    CASE pc = "initializing" -> <<"update_progress", 10>>
      [] pc = "validating"   -> <<"update_progress", 25>>
      [] pc = "processing"   -> <<"update_progress", 50>>
      [] pc = "finalizing"   -> <<"update_progress", 90>>
      [] pc = "complete"     -> <<"complete_task", NoMeta>>
      [] pc = "completed"    -> <<"update_progress", 100>>

\* The stage that follows a stage when nothing in it failed.
NextStage(pc) ==
    CASE pc = "initializing" -> "validating"
      [] pc = "validating"   -> "processing"
      [] pc = "processing"   -> "finalizing"
      [] pc = "finalizing"   -> "complete"
      [] pc = "complete"     -> "completed"
      [] pc = "completed"    -> "idle"

\* C23: an attempt of the runner makes its Task Manager calls in the order
\* update_progress 10, (lookup), update_progress 25, (validate),
\* update_progress 50, (process), update_progress 90, complete_task,
\* update_progress 100: each stage makes exactly its own call for the job of
\* the attempt and goes on to the next stage or, where a lookup, validation or
\* processing can fail, to the error path; an attempt that made the last call
\* leaves an existing record with status completed and progress 100.
C23_SuccessfulAttemptOrder ==
    [][\A w \in Workers :
        (run[w].pc \in ProgressStages \cup {"complete"}
            /\ run'[w] # run[w])
            => /\ last'.op = StageCall(run[w].pc)[1]
               /\ last'.progress = StageCall(run[w].pc)[2]
               /\ last'.id = run[w].id
               /\ run'[w].pc \in {NextStage(run[w].pc), "except"}
               /\ run[w].pc \in {"finalizing", "complete", "completed"}
                      => run'[w].pc = NextStage(run[w].pc)
               /\ (run[w].pc = "completed" /\ Exists(run[w].id))
                      => /\ TaskLog'[run[w].id].status = "completed"
                         /\ TaskLog'[run[w].id].progress = 100]_vars

\* C23 witness: a first attempt ran through all its stages on a pending
\* record; the progress history and the event log hold its calls in order.
C23_Witness ==
    \E id \in DOMAIN TaskLog :
        /\ run[1].pc = "idle"
        /\ last.op = "update_progress" /\ last.progress = 100 /\ last.id = id /\ last.ret
        /\ TaskLog[id].status = "completed" /\ TaskLog[id].progress = 100
        /\ TaskProgress[id] = <<10, 25, 50, 90, 100>>
        /\ [i \in 1..Len(TaskEventLog[id]) |-> TaskEventLog[id][i].event_type] =
                <<"created", "started", "progress", "progress", "progress", "progress",
                  "completed", "progress">>

\* C24: the error path of an attempt calls fail_task with retry=true for the
\* job of the attempt; after it the runner signals a retry (the message is
\* scheduled again with its retry counter raised by one) exactly when the
\* counter of the attempt is below 3, and otherwise returns without
\* scheduling anything; no message is ever scheduled with a counter above 3,
\* so a message is attempted at most 4 times.
C24_RetryCeiling ==
    [][/\ \A w \in Workers :
            /\ (run[w].pc = "except" /\ run'[w] # run[w])
                    => /\ last'.op = "fail_task" /\ last'.id = run[w].id /\ last'.retry
                       /\ run'[w].pc = "failed"
            /\ (run[w].pc = "failed" /\ run'[w] # run[w])
                    => /\ run'[w].pc = "idle"
                       /\ broker'.sent = broker.sent
                       /\ broker'.queue =
                            IF run[w].retries < 3
                            THEN broker.queue \cup
                                    {Delivery(run[w].msg, run[w].id, run[w].task_type,
                                              run[w].retries + 1)}
                            ELSE broker.queue
       /\ \A d \in broker'.queue : d.retries <= 3
       /\ \A w \in Workers : run'[w].retries <= 3]_vars

\* C24 witness: every attempt of a job failed; its record holds four failed
\* events, the runner has returned, and nothing is scheduled any more.
C24_Witness ==
    \E id \in DOMAIN TaskLog :
        /\ CountEvents(id, "failed") = 4
        /\ last.op = "fail_task" /\ last.id = id /\ last.retry
        /\ run[1].pc = "idle"
        /\ broker.queue = {}

\* C25: whenever the runner ends an attempt on its error path without
\* signalling a retry (it returns its terminal failure payload) and the job
\* has a record, that record has status failed and its error_message and
\* error_code are set -- whatever the record's max_retries and whatever
\* retries were requested by hand before.
C25_TerminalPayloadMeansFailed ==
    [][\A w \in Workers :
        (/\ run[w].pc = "failed"
         /\ run'[w].pc = "idle"
         /\ broker'.queue = broker.queue
         /\ Exists(run[w].id))
            => /\ TaskLog[run[w].id].status = "failed"
               /\ TaskLog[run[w].id].error_message # ""
               /\ TaskLog[run[w].id].error_code # ""]_vars

\* C26: the runner calls complete_task only for an attempt whose processing
\* reported success; an attempt whose validation failed, whose processing
\* raised or whose processing returned a result with success false goes to
\* fail_task with retry=true and never to complete_task.
C26_CompleteOnlyOnSuccess ==
    [][\A w \in Workers :
        /\ (run[w].pc = "complete" /\ run'[w] # run[w])
                => run[w].result = process("success")
        /\ (run[w].pc = "except" /\ run'[w] # run[w])
                => last'.op = "fail_task" /\ last'.retry
        /\ (run[w].pc = "processing" /\ run'[w] # run[w]
                /\ run'[w].result # process("success"))
                => run'[w].pc = "except"]_vars

\* C27: an attempt whose task type has no registered processor ends with a
\* failure indicator and stays out of the retry machinery: when it ends, the
\* runner has scheduled no retry of its message.
C27_UnknownTypeNotRetried ==
    [][\A w \in Workers :
        (/\ run[w].pc \in {"except", "failed"}
         /\ ~HasProcessor(run[w].task_type)
         /\ run'[w] # run[w])
            => /\ broker'.queue = broker.queue
               /\ run'[w].pc \in {"failed", "idle"}]_vars

\* C28: each time the runner signals a retry of a job that has a record, the
\* on-retry hook appends one entry with the value -1 to the progress history
\* of that job.
C28_OnRetrySentinel ==
    [][\A w \in Workers :
        (/\ run[w].pc = "failed"
         /\ broker'.queue # broker.queue
         /\ run'[w].pc = "idle"
         /\ Exists(run[w].id))
            => TaskProgress'[run[w].id] = Append(TaskProgress[run[w].id], -1)]_vars

\* C29: after the on-failure hook has run for an attempt whose job has a
\* record, that record has status failed and error_code CELERY_ERROR,
\* whatever its retry_count was.
C29_OnFailureMarksFailed ==
    [][\A w \in Workers :
        (/\ run[w].pc # "idle"
         /\ run'[w].pc = "idle"
         /\ last'.op = "fail_task" /\ last'.error_code = "CELERY_ERROR"
         /\ Exists(run[w].id))
            => /\ TaskLog'[run[w].id].status = "failed"
               /\ TaskLog'[run[w].id].error_code = "CELERY_ERROR"]_vars

\* The positions of a sequence of result entries whose status is success.
Successes(results) == {k \in 1..Len(results) : results[k].status = "success"}

\* C30: when the bulk runner has returned its aggregate for a batch of N
\* files, total = N, results has one entry per file in the order of the input,
\* processed is the number of entries with status success, failed is
\* N - processed, and failed is at least 1 when some file failed validation --
\* whichever files failed validation or raised.
C30_BulkAggregate ==
    bulk.pc = "returned" =>
        LET N == Len(bulk.file_paths)
            agg == bulk.final_result
        IN  /\ agg.total = N
            /\ Len(agg.results) = N
            /\ \A k \in 1..N : agg.results[k].file = bulk.file_paths[k]
            /\ agg.processed = Cardinality(Successes(agg.results))
            /\ agg.failed = N - agg.processed
            /\ (\E k \in 1..N : validate(bulk.file_paths[k]) # "True") => agg.failed >= 1
            /\ \A k \in 1..N : validate(bulk.file_paths[k]) # "True"
                                    => agg.results[k].status = "failed"

\* C30 witness: a batch whose first file fails validation, whose second file
\* raises in processing and whose last file is processed has been aggregated.
C30_Witness ==
    /\ bulk.pc = "returned"
    /\ Len(bulk.file_paths) = 3
    /\ bulk.file_paths = <<"note.txt", "crash.png", "ok.png">>
    /\ bulk.final_result.processed = 1
    /\ bulk.final_result.failed = 2

\* C31: when the bulk runner has returned the aggregate of a batch requested
\* through bulk_create, a record with the job id of the batch exists, has
\* status completed and holds the aggregate as its result; the run called
\* complete_task for it and not fail_task.
C31_BatchOutcomeOnRecord ==
    bulk.pc = "returned" =>
        /\ last.op = "complete_task" /\ last.id = bulk.id
        /\ Exists(bulk.id)
        /\ TaskLog[bulk.id].status = "completed"
        /\ TaskLog[bulk.id].result = bulk.final_result

\* C32: before the file at index idx (from 0) of a batch of total files the
\* bulk runner reports progress floor(idx * 100 / total); the reported value
\* lies in 0..99, is not below the value reported before the previous file,
\* and is not rejected by update_progress; a run on an empty batch reports no
\* progress and goes straight to complete_task.
C32_BulkProgress ==
    [][/\ (bulk.pc = "loop" /\ bulk'.idx = bulk.idx + 1)
            => /\ last'.op = "update_progress"
               /\ last'.progress = (bulk.idx * 100) \div Len(bulk.file_paths)
               /\ last'.progress \in 0..99
               /\ bulk.idx > 0 => last'.progress >= last.progress
               /\ last'.err # "ValueError"
       /\ (bulk.pc = "loop" /\ Len(bulk.file_paths) = 0 /\ bulk' # bulk)
            => /\ bulk'.pc = "returned"
               /\ last'.op = "complete_task"]_vars

(***************************************************************************)
(* The factory and the registry driven through their public class methods. *)
(***************************************************************************)
FileTypes == {"image", "IMAGE", "video", "archive", "Archive"}

FilePaths == {"a.pdf", "a.PDF", "b.Png", "c.mp4", "d.zip", "README"}

Lookup(op, arg, ret) == [op |-> op, arg |-> arg, ret |-> ret]

FactoryFrame ==
    UNCHANGED <<TaskLog, TaskProgress, TaskEventLog, now, last, broker, wpc, wloc, pred,
                deleted, run, response, bulk>>

call_register(file_type, processor_class) ==
    /\ factory' = [register(factory, file_type, processor_class)
                      EXCEPT !.call = Lookup("register", file_type, None)]
    /\ FactoryFrame

call_initialize(import_ok) ==
    /\ factory' = [initialize(factory, import_ok) EXCEPT
            !.call = Lookup("initialize", "",
                            IF ~factory.initialized /\ ~import_ok
                            THEN "ImportError" ELSE None)]
    /\ FactoryFrame

call_get_processor(file_type) ==
    /\ factory' = [factory EXCEPT
            !.call = Lookup("get_processor", file_type, get_processor(factory, file_type))]
    /\ FactoryFrame

call_get_processor_by_extension(file_path) ==
    /\ factory' = [factory EXCEPT
            !.call = Lookup("get_processor_by_extension", file_path,
                            get_processor_by_extension(factory, file_path))]
    /\ FactoryFrame

NextRegistry ==
    \/ \E file_type \in FileTypes, processor_class \in ProcessorClasses :
            call_register(file_type, processor_class)
    \/ \E import_ok \in BOOLEAN : call_initialize(import_ok)
    \/ \E file_type \in FileTypes : call_get_processor(file_type)
    \/ \E file_path \in FilePaths : call_get_processor_by_extension(file_path)

SpecRegistry == Init /\ [][NextRegistry]_vars

\* C33: the first successful initialize registers the three built-in
\* processors and sets the flag; every initialize after that leaves the
\* mapping as it is, a built-in key registered again in between included.
C33_InitializeOnce ==
    [][factory'.call.op = "initialize" =>
          /\ factory.initialized =>
                /\ factory'.processors = factory.processors
                /\ factory'.initialized
                /\ factory'.call.ret = None
          /\ (~factory.initialized /\ factory'.call.ret = None) =>
                /\ factory'.initialized
                /\ \A i \in 1..Len(Registered) :
                      get(factory'.processors, Registered[i]) = BuiltIn(Registered[i])
          /\ (~factory.initialized /\ factory'.call.ret = "ImportError") =>
                /\ factory'.processors = factory.processors
                /\ ~factory'.initialized]_vars

\* C33 witness: after the first initialize the image key was registered for
\* another class, and a later initialize has left that registration alone.
C33_Witness ==
    /\ factory.initialized
    /\ factory.call.op = "initialize"
    /\ get(factory.processors, "image") = "CustomProcessor"

\* Keys that differ in letter case only.
SameKey(a, b) ==
    \E letters \in {{"image", "IMAGE", "Image"}, {"archive", "Archive", "ARCHIVE"},
                    {"video"}, {"document"}} : a \in letters /\ b \in letters

\* C34: a registration is found under every letter case of its key, a
\* lookup never changes the registry, and a key's lookup stops failing with
\* ValueError only in a step that registers that key in some letter case.
C34_CaseInsensitiveLookup ==
    [][/\ factory'.call.op = "register" =>
            \A b \in FileTypes :
                SameKey(factory'.call.arg, b) =>
                    /\ get_processor(factory', b) # "ValueError"
                    /\ \A c \in FileTypes :
                          SameKey(b, c) => get_processor(factory', c) = get_processor(factory', b)
       /\ factory'.call.op = "get_processor" =>
            /\ factory'.processors = factory.processors
            /\ factory'.initialized = factory.initialized
            /\ factory'.call.ret = get_processor(factory, factory'.call.arg)
       /\ \A b \in FileTypes :
            (get_processor(factory, b) = "ValueError" /\ get_processor(factory', b) # "ValueError")
                => \/ factory'.call.op = "register" /\ SameKey(factory'.call.arg, b)
                   \/ /\ factory'.call.op = "initialize"
                      /\ \E i \in 1..Len(Registered) : SameKey(Registered[i], b)]_vars

\* C34 witness: a key registered with a capital letter was looked up in
\* lower case and found, and a key never registered was looked up and failed.
C34_Witness ==
    /\ factory.call.op = "get_processor"
    /\ factory.call.arg = "archive"
    /\ factory.call.ret = "VideoProcessor"
    /\ \E i \in 1..Len(factory.processors) : factory.processors[i].key = "archive"
    /\ get_processor(factory, "video") = "ValueError"

C36_SharedJobId ==
    /\ \A d \in broker.queue : d.msg = d.id
    /\ \A w \in Workers : run[w].pc # "idle" => run[w].msg = run[w].id
    /\ \A task_id \in broker.revoked :
            \A d \in broker.queue : d.id = task_id => d.msg \in broker.revoked

\* C37: after every update_progress(id, p) that returns True the record's
\* progress field is p, the call that moves the record from pending to
\* processing included.
C37_ProgressStored ==
    [][(last'.op = "update_progress" /\ last'.ret /\ last' # last)
            => TaskLog'[last'.id].progress = last'.progress]_vars

\* C38: in every reachable state a record whose status is completed has
\* progress 100, also when a second attempt of the same job runs or a
\* progress report arrives after the completion.
C38_CompletedMeansFull ==
    \A id \in DOMAIN TaskLog :
        TaskLog[id].status = "completed" => TaskLog[id].progress = 100

(***************************************************************************)
(* complete_task, fail_task, cancel_task and retry_task as the steps a     *)
(* caller goes through: the get with the assignments to the fetched        *)
(* object, task.save() of the whole row, and the creation of the event.    *)
(* Each write is committed on its own; a caller that dies between them      *)
(* leaves the first write in place.                                        *)
(***************************************************************************)
ManagerSteps == {"complete_task", "fail_task", "cancel_task", "retry_task"}

WriteOrder_EventFirst == <<"append", "save">>

WriteOrder == <<"save", "append">>

Refused(op, task) ==
    \/ op = "cancel_task" /\ ~is_cancellable(task.status)
    \/ op = "retry_task" /\ ~is_retryable(task.status, task.retry_count, task.max_retries)

Assigned(op, task, retry, t) ==
    CASE op = "complete_task" ->
            [task EXCEPT !.status = "completed", !.progress = 100,
                         !.result = "r1", !.completed_at = t]
      [] op = "fail_task" ->
            LET again == ShouldRetry(retry, task.retry_count, task.max_retries)
            IN  [task EXCEPT !.status = IF again THEN "retry" ELSE "failed",
                             !.retry_count = IF again THEN @ + 1 ELSE @,
                             !.error_message = "boom",
                             !.error_code = ErrorCodeOrUnknown(none)]
      [] op = "cancel_task" ->
            [task EXCEPT !.status = "cancelled", !.cancelled_at = t]
      [] op = "retry_task" ->
            [task EXCEPT !.status = "retry", !.retry_count = @ + 1, !.error_message = ""]

StepCall(op, id, retry, ret, err) ==
    Call(op, id, NoMeta, retry, IF op = "fail_task" THEN "boom" ELSE "", none, ret, err)

StepEvent(loc) ==
    CASE loc.op = "complete_task" -> Event("completed", NoMeta)
      [] loc.op = "fail_task" -> Event("failed", loc.task.retry_count)
      [] loc.op = "cancel_task" -> Event("cancelled", NoMeta)
      [] loc.op = "retry_task" -> Event("retried", NoMeta)

st_get(w, op, id, retry) ==
    /\ wpc[w] = "idle"
    /\ Budget
    /\ now < MaxClock
    /\ IF ~Exists(id)
       THEN /\ last' = StepCall(op, id, retry, FALSE, "DoesNotExist")
            /\ UNCHANGED <<wpc, wloc, now>>
       ELSE IF Refused(op, TaskLog[id])
       THEN /\ last' = StepCall(op, id, retry, FALSE, "ValueError")
            /\ UNCHANGED <<wpc, wloc, now>>
       ELSE /\ wloc' = [wloc EXCEPT ![w] =
                    [IdleLocal EXCEPT !.op = op, !.id = id, !.retry = retry,
                                      !.task = Assigned(op, TaskLog[id], retry, now)]]
            /\ wpc' = [wpc EXCEPT ![w] = WriteOrder[1]]
            /\ now' = IF op \in {"complete_task", "cancel_task"} THEN now + 1 ELSE now
            /\ UNCHANGED last
    /\ UNCHANGED <<TaskLog, TaskProgress, TaskEventLog, broker, pred, deleted, run, response,
                   bulk, factory>>

\* After a write the caller goes on to the other write, or returns True.
Written(w, pc) ==
    IF pc = WriteOrder[1]
    THEN /\ wpc' = [wpc EXCEPT ![w] = WriteOrder[2]]
         /\ UNCHANGED <<wloc, last>>
    ELSE /\ wpc' = [wpc EXCEPT ![w] = "idle"]
         /\ wloc' = [wloc EXCEPT ![w] = IdleLocal]
         /\ last' = StepCall(wloc[w].op, wloc[w].id, wloc[w].retry, TRUE, "none")

st_save(w) ==
    /\ wpc[w] = "save"
    /\ TaskLog' = [TaskLog EXCEPT ![wloc[w].id] = wloc[w].task]
    /\ Written(w, "save")
    /\ UNCHANGED <<TaskProgress, TaskEventLog, now, broker, pred, deleted, run, response,
                   bulk, factory>>

st_append(w) ==
    /\ wpc[w] = "append"
    /\ TaskEventLog' = [TaskEventLog EXCEPT ![wloc[w].id] = Append(@, StepEvent(wloc[w]))]
    /\ Written(w, "append")
    /\ UNCHANGED <<TaskLog, TaskProgress, now, broker, pred, deleted, run, response,
                   bulk, factory>>

crash(w) ==
    /\ wpc[w] # "idle"
    /\ wpc' = [wpc EXCEPT ![w] = "idle"]
    /\ wloc' = [wloc EXCEPT ![w] = IdleLocal]
    /\ UNCHANGED <<TaskLog, TaskProgress, TaskEventLog, now, last, broker, pred, deleted, run,
                   response, bulk, factory>>

\* One record and one caller at a time, which may die at any point of a
\* call.  Calls start while the events and the history rows written so far
\* are below MaxWrites; update_progress reports the progress of the
\* runner's first stage.
CrashBudget == TotalLogged + SumLen(TaskProgress, Ids) < MaxWrites

NextCrash ==
    \/ \E file_exists \in BOOLEAN, task_type \in TaskTypeChoices :
            TaskLog = <<>> /\ create_task(file_exists, task_type)
    \/ \E id \in Ids, progress \in {10} :
            now < MaxClock /\ CrashBudget /\ up_get(1, id, progress)
    \/ up_branch(1)
    \/ up_save_started(1)
    \/ up_history(1)
    \/ up_event(1)
    \/ \E op \in ManagerSteps, id \in Ids, retry \in BOOLEAN :
            CrashBudget /\ st_get(1, op, id, retry)
    \/ st_save(1)
    \/ st_append(1)
    \/ crash(1)

SpecCrash == Init /\ [][NextCrash]_vars

\* Callers of fail_task (retry left at True) and retry_task side by side.
NextRace ==
    \/ \E file_exists \in BOOLEAN, task_type \in TaskTypeChoices :
            create_task(file_exists, task_type)
    \/ \E w \in Workers, op \in {"fail_task", "retry_task"}, id \in Ids :
            st_get(w, op, id, TRUE)
    \/ \E w \in Workers : st_save(w)
    \/ \E w \in Workers : st_append(w)

SpecRace == Init /\ [][NextRace]_vars

\* C39: the record is written before the event is appended, so also after a
\* caller died between two writes a completed, failed, cancelled or retried
\* event in a record's log finds the mutation of its call in the record:
\* completed_at, error_code, cancelled_at are set and retry_count has the
\* increments of the retried events.  (A started event may be in the log of
\* a record that is still pending.)
C39_RecordWrittenBeforeEvent ==
    \A id \in DOMAIN TaskLog :
        /\ CountEvents(id, "completed") > 0 => TaskLog[id].completed_at # NULL
        /\ CountEvents(id, "failed") > 0 => TaskLog[id].error_code # ""
        /\ CountEvents(id, "cancelled") > 0 => TaskLog[id].cancelled_at # NULL
        /\ CountEvents(id, "retried") <= TaskLog[id].retry_count

\* C39 witness: a caller died after the save of cancel_task, before the
\* event, and a later fail_task wrote the record and its event: the record
\* has cancelled_at set and no cancelled event, and a failed event with the
\* error code in the record.
C39_Witness ==
    /\ wpc[1] = "idle"
    /\ \E id \in DOMAIN TaskLog :
            /\ TaskLog[id].cancelled_at # NULL
            /\ CountEvents(id, "cancelled") = 0
            /\ CountEvents(id, "failed") > 0
            /\ TaskLog[id].error_code = "UNKNOWN"

\* The failed events of a log written by fail_task with retry True that
\* carry a retry_count below max_retries: each left its record in retry.
RetryFailures(id) ==
    Cardinality({k \in 1..Len(TaskEventLog[id]) :
        /\ TaskEventLog[id][k].event_type = "failed"
        /\ TaskEventLog[id][k].metadata < TaskLog[id].max_retries})

\* C40: when fail_task and retry_task calls for one job interleave, no
\* increment of retry_count is lost: once no call is in flight on a record
\* (and every failed event in its log left it in status retry), retry_count
\* is the number of retried events plus the number of those failed events.
C40_NoLostRetryIncrement ==
    \A id \in DOMAIN TaskLog :
        (/\ \A w \in Workers : wpc[w] # "idle" => wloc[w].id # id
         /\ RetryFailures(id) = CountEvents(id, "failed"))
            => TaskLog[id].retry_count = CountEvents(id, "retried") + RetryFailures(id)

====
